---- MODULE Spec2Model ----
(***************************************************************************)
(* Model of src/src/flight_planner.py: the route graph, the earliest-      *)
(* arrival search (find_earliest_itinerary), the cheapest-fare search      *)
(* (find_cheapest_itinerary) and the Itinerary value they return.          *)
(*                                                                         *)
(* One behaviour is one call of one search.  Init is the state right after *)
(* the call has built its queue and maps (lines 179-181 / 225-228); every  *)
(* iteration of the `while pq` loop is one action, leaving the loop is one *)
(* action, and the path reconstruction with the return is one action.      *)
(*                                                                         *)
(* Airports are numbered 1..NumAirports (1 = "A", 2 = "B", ...): the code  *)
(* orders queue entries as tuples, so ties fall back on the airport code,  *)
(* and the numbers keep the order of the codes.  Times are minutes since   *)
(* midnight.  Python's None is the empty tuple, Some(x) the tuple <<x>>.   *)
(***************************************************************************)
EXTENDS Integers, Sequences, FiniteSets, TLC

\* ------------------------------------------------------------------ bounds

\* Locations of the network.
NumAirports == 4
\* Longest flight list handed to build_graph.
MaxFlights == 4

\* ------------------------------------------------------- program constants

MIN_LAYOVER_MINUTES == 60

Cabins == {"economy", "business", "first"}

\* ------------------------------------------------------------------ values

None == << >>
Some(x) == <<x>>

Airports == 1..NumAirports

\* The Flight dataclass.
Flight(o, d, n, dep, arr, e, b, f) ==
    [origin |-> o, dest |-> d, flight_number |-> n, depart |-> dep,
     arrive |-> arr, economy |-> e, business |-> b, first |-> f]

\* Flight.price_for
price_for(fl, c) ==
    CASE c = "economy" -> fl.economy
      [] c = "business" -> fl.business
      [] c = "first" -> fl.first

\* ------------------------------------------------------------------ inputs

(***************************************************************************)
(* The flight records the inputs are drawn from: what load_flights hands   *)
(* on, so arrive > depart and prices >= 0 in each.  A flight list is any   *)
(* sequence of at most MaxFlights different ones of them, in any order.    *)
(*   AB1  A->B 08:00-09:00   the early flight into B                       *)
(*   AB2  A->B 08:30-10:00   the late one: cheaper in economy, same price  *)
(*                           in business, dearer in first                  *)
(*   BC1  B->C 10:00-11:00   leaves exactly 60 minutes after AB1 lands,    *)
(*                           and on the minute AB2 lands                   *)
(*   BC0  B->C 09:30-10:30   leaves before AB1's layover is over           *)
(*   AC1  A->C 08:00-12:00   the direct flight, later and dearer           *)
(*   BA1  B->A 10:00-11:00   free in every cabin: closes a cycle with AB1, *)
(*                           which is free in first                        *)
(*   CD1  C->D 12:00-13:00   a third leg                                   *)
(***************************************************************************)
Timetable ==
    { Flight(1, 2, "AB1", 480, 540, 100, 200, 0),
      Flight(1, 2, "AB2", 510, 600, 50, 200, 300),
      Flight(2, 3, "BC1", 600, 660, 50, 80, 120),
      Flight(2, 3, "BC0", 570, 630, 50, 80, 120),
      Flight(1, 3, "AC1", 480, 720, 500, 600, 700),
      Flight(2, 1, "BA1", 600, 660, 0, 0, 0),
      Flight(3, 4, "CD1", 720, 780, 0, 40, 60) }

\* The values of earliest_departure: 07:00 and 09:50.
EarliestDepartures == {420, 590}

FlightLists ==
    UNION {{fs \in [1..n -> Timetable] : \A i, j \in 1..n : fs[i] = fs[j] => i = j} :
             n \in 0..MaxFlights}

\* ------------------------------------------------------------------- state

VARIABLES
    fn,                  \* "earliest" or "cheapest": the function called
    graph,               \* Graph: origin -> list of flights
    start, dest, earliest_departure,
    cabin,               \* the cabin argument (None for the earliest search)
    pq,                  \* the heap, kept as the sorted list of its entries
    best_time, best_cost, prev,
    pc,                  \* "loop", "rebuild" or "done"
    result               \* the returned value, once pc = "done"

vars == <<fn, graph, start, dest, earliest_departure, cabin, pq, best_time,
          best_cost, prev, pc, result>>

args == <<fn, graph, start, dest, earliest_departure, cabin>>

\* ------------------------------------------------------------------- graph

RECURSIVE build_graph_from(_, _)
build_graph_from(g, fs) ==
    IF fs = << >> THEN g
    ELSE LET f == Head(fs)
             old == IF f.origin \in DOMAIN g THEN g[f.origin] ELSE << >>
         IN build_graph_from((f.origin :> Append(old, f)) @@ g, Tail(fs))

\* build_graph: graph.setdefault(f.origin, []).append(f) for each flight.
build_graph(fs) == build_graph_from(<< >>, fs)

\* graph.get(airport, [])
Outbound(g, airport) == IF airport \in DOMAIN g THEN g[airport] ELSE << >>

\* -------------------------------------------------------------------- heap

\* Python's tuple order on two tuples of integers of the same length.
RECURSIVE TupleLess(_, _)
TupleLess(a, b) ==
    IF a = << >> THEN FALSE
    ELSE IF Head(a) < Head(b) THEN TRUE
    ELSE IF Head(a) > Head(b) THEN FALSE
    ELSE TupleLess(Tail(a), Tail(b))

\* heapq.heappush: the heap is kept as its entries in ascending order, which
\* is the order heappop hands them out in.
RECURSIVE heappush(_, _)
heappush(q, e) ==
    IF q = << >> THEN <<e>>
    ELSE IF TupleLess(Head(q), e) THEN <<Head(q)>> \o heappush(Tail(q), e)
    ELSE <<e>> \o q

\* --------------------------------------------------------------- itinerary

Itinerary(flights) == [kind |-> "Itinerary", flights |-> flights]
NoItinerary == [kind |-> "None", flights |-> << >>]
Pending == [kind |-> "pending", flights |-> << >>]
\* prev[cur] on a missing key.
KeyError == [kind |-> "KeyError", flights |-> << >>]
\* A reconstruction loop that never reaches start.
Diverges == [kind |-> "Diverges", flights |-> << >>]

is_empty(it) == it.flights = << >>
origin_of(it) == IF it.flights # << >> THEN Some(it.flights[1].origin) ELSE None
dest_of(it) == IF it.flights # << >> THEN Some(it.flights[Len(it.flights)].dest) ELSE None
depart_time(it) == IF it.flights # << >> THEN Some(it.flights[1].depart) ELSE None
arrive_time(it) == IF it.flights # << >> THEN Some(it.flights[Len(it.flights)].arrive) ELSE None

RECURSIVE SumPrices(_, _)
SumPrices(fs, c) ==
    IF fs = << >> THEN 0 ELSE price_for(Head(fs), c) + SumPrices(Tail(fs), c)

total_price(it, c) == SumPrices(it.flights, c)

num_stops(it) == IF Len(it.flights) - 1 > 0 THEN Len(it.flights) - 1 ELSE 0

\* A reconstruction that forgets flights.reverse().
NoReverse(s) == s

\* list.reverse()
RECURSIVE Reverse(_)
Reverse(s) == IF s = << >> THEN << >> ELSE Append(Reverse(Tail(s)), Head(s))

\* ---------------------------------------------------------- earliest search

\* min_dep without the layover.
EarliestMinDepNoLayover(airport, time) ==
    IF airport = start THEN earliest_departure ELSE time

\* min_dep of find_earliest_itinerary.
EarliestMinDep(airport, time) ==
    IF airport = start THEN earliest_departure ELSE time + MIN_LAYOVER_MINUTES

\* A relaxation that keeps the first arrival time recorded for a location.
EarliestNeverImproves(fl, bt) == fl.dest \notin DOMAIN bt

\* The relaxation test of find_earliest_itinerary.
EarliestImproves(fl, bt) ==
    IF fl.dest \notin DOMAIN bt THEN TRUE ELSE fl.arrive < bt[fl.dest]

\* The for loop of find_earliest_itinerary over the flights fs out of
\* `airport`, popped with `time`; st carries pq, best_time and prev.
RECURSIVE EarliestRelax(_, _, _, _)
EarliestRelax(fs, time, airport, st) ==
    IF fs = << >> THEN st
    ELSE LET fl == Head(fs)
             st2 == IF fl.depart < EarliestMinDep(airport, time) THEN st
                    ELSE IF EarliestImproves(fl, st.best_time)
                    THEN [best_time |-> (fl.dest :> fl.arrive) @@ st.best_time,
                          prev |-> (fl.dest :> fl) @@ st.prev,
                          pq |-> heappush(st.pq, <<fl.arrive, fl.dest>>)]
                    ELSE st
         IN EarliestRelax(Tail(fs), time, airport, st2)

\* The walk along prev of find_earliest_itinerary; the flights collected so
\* far are acc, and fuel counts the steps a walk that ends can still take.
RECURSIVE EarliestWalk(_, _, _, _)
EarliestWalk(p, cur, acc, fuel) ==
    IF cur = start THEN Itinerary(Reverse(acc))
    ELSE IF cur \notin DOMAIN p THEN NoItinerary
    ELSE IF fuel = 0 THEN Diverges
    ELSE EarliestWalk(p, p[cur].origin, Append(acc, p[cur]), fuel - 1)

\* The guard of find_cheapest_itinerary, which lacks `and start != dest`.
EarliestReconstructUnlessRecorded(p) ==
    IF dest \notin DOMAIN p THEN NoItinerary
    ELSE EarliestWalk(p, dest, << >>, Cardinality(DOMAIN p))

\* Lines 201-214: the guard, the walk, the reversal and the return.
EarliestReconstruct(p) ==
    IF dest \notin DOMAIN p /\ start # dest THEN NoItinerary
    ELSE EarliestWalk(p, dest, << >>, Cardinality(DOMAIN p))

InitEarliest ==
    /\ fn = "earliest"
    /\ \E fs \in FlightLists : graph = build_graph(fs)
    /\ start \in Airports
    /\ dest \in Airports
    /\ earliest_departure \in EarliestDepartures
    /\ cabin = None
    /\ pq = << <<earliest_departure, start>> >>
    /\ best_time = (start :> earliest_departure)
    /\ best_cost = << >>
    /\ prev = << >>
    /\ pc = "loop"
    /\ result = Pending

\* One iteration of the while loop that does not break.
EarliestPop ==
    /\ fn = "earliest"
    /\ pc = "loop"
    /\ pq # << >>
    /\ Head(pq)[2] # dest
    /\ LET time == Head(pq)[1]
           airport == Head(pq)[2]
           st == EarliestRelax(Outbound(graph, airport), time, airport,
                               [best_time |-> best_time, prev |-> prev, pq |-> Tail(pq)])
       IN /\ pq' = st.pq
          /\ best_time' = st.best_time
          /\ prev' = st.prev
    /\ UNCHANGED <<args, best_cost, pc, result>>

\* The iteration that pops dest and breaks.
EarliestBreak ==
    /\ fn = "earliest"
    /\ pc = "loop"
    /\ pq # << >>
    /\ Head(pq)[2] = dest
    /\ pq' = Tail(pq)
    /\ pc' = "rebuild"
    /\ UNCHANGED <<args, best_time, best_cost, prev, result>>

\* `while pq` on an empty queue.
EarliestLoopEnd ==
    /\ fn = "earliest"
    /\ pc = "loop"
    /\ pq = << >>
    /\ pc' = "rebuild"
    /\ UNCHANGED <<args, pq, best_time, best_cost, prev, result>>

EarliestReturn ==
    /\ fn = "earliest"
    /\ pc = "rebuild"
    /\ result' = EarliestReconstruct(prev)
    /\ pc' = "done"
    /\ UNCHANGED <<args, pq, best_time, best_cost, prev>>

\* ---------------------------------------------------------- cheapest search

\* min_dep without the layover.
CheapestMinDepNoLayover(airport, time) ==
    IF airport = start THEN earliest_departure ELSE time

\* min_dep of find_cheapest_itinerary.
CheapestMinDep(airport, time) ==
    IF airport = start THEN earliest_departure ELSE time + MIN_LAYOVER_MINUTES

\* A relaxation that also takes an equal cost: <= for <.
CheapestImprovesOrEqual(fl, new_cost, bc) ==
    IF fl.dest \notin DOMAIN bc THEN TRUE ELSE new_cost <= bc[fl.dest]

\* The relaxation test of find_cheapest_itinerary.
CheapestImproves(fl, new_cost, bc) ==
    IF fl.dest \notin DOMAIN bc THEN TRUE ELSE new_cost < bc[fl.dest]

\* The for loop of find_cheapest_itinerary over the flights fs out of
\* `airport`, popped with `cost` and `time`.
RECURSIVE CheapestRelax(_, _, _, _, _)
CheapestRelax(fs, cost, time, airport, st) ==
    IF fs = << >> THEN st
    ELSE LET fl == Head(fs)
             new_cost == cost + price_for(fl, cabin)
             st2 == IF fl.depart < CheapestMinDep(airport, time) THEN st
                    ELSE IF CheapestImproves(fl, new_cost, st.best_cost)
                    THEN [best_cost |-> (fl.dest :> new_cost) @@ st.best_cost,
                          best_time |-> (fl.dest :> fl.arrive) @@ st.best_time,
                          prev |-> (fl.dest :> fl) @@ st.prev,
                          pq |-> heappush(st.pq, <<new_cost, fl.arrive, fl.dest>>)]
                    ELSE st
         IN CheapestRelax(Tail(fs), cost, time, airport, st2)

\* The walk along prev of find_cheapest_itinerary: prev[cur] is not guarded.
RECURSIVE CheapestWalk(_, _, _, _)
CheapestWalk(p, cur, acc, fuel) ==
    IF cur = start THEN Itinerary(Reverse(acc))
    ELSE IF cur \notin DOMAIN p THEN KeyError
    ELSE IF fuel = 0 THEN Diverges
    ELSE CheapestWalk(p, p[cur].origin, Append(acc, p[cur]), fuel - 1)

\* Lines 255-266.
CheapestReconstruct(p) ==
    IF dest \notin DOMAIN p THEN NoItinerary
    ELSE CheapestWalk(p, dest, << >>, Cardinality(DOMAIN p))

InitCheapest ==
    /\ fn = "cheapest"
    /\ \E fs \in FlightLists : graph = build_graph(fs)
    /\ start \in Airports
    /\ dest \in Airports
    /\ earliest_departure \in EarliestDepartures
    /\ cabin \in Cabins
    /\ pq = << <<0, earliest_departure, start>> >>
    /\ best_cost = (start :> 0)
    /\ best_time = (start :> earliest_departure)
    /\ prev = << >>
    /\ pc = "loop"
    /\ result = Pending

CheapestPop ==
    /\ fn = "cheapest"
    /\ pc = "loop"
    /\ pq # << >>
    /\ Head(pq)[3] # dest
    /\ LET cost == Head(pq)[1]
           time == Head(pq)[2]
           airport == Head(pq)[3]
           st == CheapestRelax(Outbound(graph, airport), cost, time, airport,
                               [best_cost |-> best_cost, best_time |-> best_time,
                                prev |-> prev, pq |-> Tail(pq)])
       IN /\ pq' = st.pq
          /\ best_cost' = st.best_cost
          /\ best_time' = st.best_time
          /\ prev' = st.prev
    /\ UNCHANGED <<args, pc, result>>

CheapestBreak ==
    /\ fn = "cheapest"
    /\ pc = "loop"
    /\ pq # << >>
    /\ Head(pq)[3] = dest
    /\ pq' = Tail(pq)
    /\ pc' = "rebuild"
    /\ UNCHANGED <<args, best_time, best_cost, prev, result>>

CheapestLoopEnd ==
    /\ fn = "cheapest"
    /\ pc = "loop"
    /\ pq = << >>
    /\ pc' = "rebuild"
    /\ UNCHANGED <<args, pq, best_time, best_cost, prev, result>>

CheapestReturn ==
    /\ fn = "cheapest"
    /\ pc = "rebuild"
    /\ result' = CheapestReconstruct(prev)
    /\ pc' = "done"
    /\ UNCHANGED <<args, pq, best_time, best_cost, prev>>

\* ---------------------------------------------------------- specifications

NextEarliest == EarliestPop \/ EarliestBreak \/ EarliestLoopEnd \/ EarliestReturn
NextCheapest == CheapestPop \/ CheapestBreak \/ CheapestLoopEnd \/ CheapestReturn

\* A call of find_earliest_itinerary.
SpecEarliest == InitEarliest /\ [][NextEarliest]_vars
\* A call of find_cheapest_itinerary.
SpecCheapest == InitCheapest /\ [][NextCheapest]_vars

\* A call of either search.
Init == InitEarliest \/ InitCheapest
Next == NextEarliest \/ NextCheapest
Spec == Init /\ [][Next]_vars

\* The scheduling of a call: the interpreter runs the next step of the
\* function for as long as there is one.
FairSpec == Spec /\ WF_vars(Next)

\* ------------------------------------------------------------ feasible paths

\* The flights of the graph.
AllFlights == UNION {{graph[a][i] : i \in 1..Len(graph[a])} : a \in DOMAIN graph}

Last(s) == s[Len(s)]

\* The feasible chains that start with `path`: every later flight leaves the
\* airport the previous one lands at, 60 minutes or more after it lands.
RECURSIVE Extend(_)
Extend(path) ==
    {path} \cup
    UNION {Extend(Append(path, f)) :
             f \in {g \in AllFlights : /\ g.origin = Last(path).dest
                                       /\ g.depart >= Last(path).arrive + 60}}

\* The feasible paths from start to dest: the first flight leaves start at or
\* after earliest_departure, the last lands at dest.
FeasiblePaths ==
    {p \in UNION {Extend(<<f>>) :
                    f \in {g \in AllFlights : /\ g.origin = start
                                              /\ g.depart >= earliest_departure}} :
       Last(p).dest = dest}

Returned == pc = "done" /\ result.kind = "Itinerary"

ConnectionsFeasible(fs) ==
    \A i \in 1..(Len(fs) - 1) : fs[i + 1].depart >= fs[i].arrive + 60

\* -------------------------------------------------------------------- claims

\* C1: an itinerary returned by find_cheapest_itinerary is no dearer, in the
\* cabin asked for, than any feasible path from start to dest.
C1_CheapestIsOptimal ==
    (fn = "cheapest" /\ Returned) =>
        \A p \in FeasiblePaths : ~(SumPrices(p, cabin) < total_price(result, cabin))

\* C2: a non-empty itinerary returned by find_earliest_itinerary arrives no
\* later than any feasible path from start to dest.
C2_EarliestIsOptimal ==
    (fn = "earliest" /\ Returned /\ ~is_empty(result)) =>
        \A p \in FeasiblePaths : ~(Last(p).arrive < arrive_time(result)[1])

\* C2's case: a two-leg itinerary is returned although a feasible path that
\* lands later exists, and the location changed over was relabelled or
\* offered a second flight.
C2_Witness ==
    /\ fn = "earliest" /\ Returned
    /\ Len(result.flights) = 2
    /\ \E p \in FeasiblePaths : Last(p).arrive > arrive_time(result)[1]
    /\ \E f \in AllFlights : /\ f.dest = result.flights[1].dest
                             /\ f.origin = start
                             /\ f.arrive > result.flights[1].arrive

\* C3: in an itinerary returned by find_cheapest_itinerary every flight after
\* the first leaves 60 minutes or more after the one before it lands.
C3_CheapestConnectionsFeasible ==
    (fn = "cheapest" /\ Returned) => ConnectionsFeasible(result.flights)

\* C4: in an itinerary returned by find_earliest_itinerary the first flight
\* leaves at or after earliest_departure and every later flight leaves 60
\* minutes or more after the one before it lands.
C4_EarliestFeasible ==
    (fn = "earliest" /\ Returned) =>
        /\ ConnectionsFeasible(result.flights)
        /\ ~is_empty(result) => depart_time(result)[1] >= earliest_departure

\* C4's case: an itinerary with a connection is returned although a flight
\* out of start, leaving before earliest_departure, lands at the first stop
\* before the flight taken does.
C4_Witness ==
    /\ fn = "earliest" /\ Returned
    /\ Len(result.flights) >= 2
    /\ \E f \in AllFlights : /\ f.origin = start
                             /\ f.depart < earliest_departure
                             /\ f.dest = result.flights[1].dest
                             /\ f.arrive < result.flights[1].arrive

\* C5: a non-empty itinerary returned by either search is a chain from start
\* to dest.
C5_Chain ==
    (Returned /\ ~is_empty(result)) =>
        /\ origin_of(result) = Some(start)
        /\ dest_of(result) = Some(dest)
        /\ \A i \in 1..(Len(result.flights) - 1) :
              result.flights[i].dest = result.flights[i + 1].origin

\* C5's case: a returned itinerary of three flights.
C5_Witness == Returned /\ Len(result.flights) = 3

\* C6: when find_cheapest_itinerary returns None for start # dest, the graph
\* holds no feasible path from start to dest.
C6_CheapestNoneMeansNoPath ==
    (fn = "cheapest" /\ pc = "done" /\ result.kind = "None" /\ start # dest) =>
        FeasiblePaths = {}

\* C7: for start # dest, when the graph holds no feasible path from start to
\* dest, both searches return None and raise nothing.
C7_NoPathMeansNone ==
    (pc = "done" /\ start # dest /\ FeasiblePaths = {}) => result = NoItinerary

\* C7's case: None is returned where flights chain from start to dest, but
\* only over a connection shorter than 60 minutes.
C7_Witness ==
    /\ pc = "done" /\ start # dest /\ FeasiblePaths = {} /\ result = NoItinerary
    /\ \E f, g \in AllFlights : /\ f.origin = start /\ f.depart >= earliest_departure
                                /\ g.origin = f.dest /\ g.dest = dest
                                /\ g.depart < f.arrive + 60

\* C8: with start = dest find_earliest_itinerary relaxes no flight and returns
\* an itinerary of zero flights: no stops, price 0 in every cabin, no
\* departure or arrival time.
C8_EarliestIdentity ==
    (fn = "earliest" /\ start = dest) =>
        /\ DOMAIN prev = {}
        /\ DOMAIN best_time = {start}
        /\ pc = "done" =>
              /\ result.kind = "Itinerary"
              /\ result.flights = << >>
              /\ num_stops(result) = 0
              /\ \A c \in Cabins : total_price(result, c) = 0
              /\ depart_time(result) = None
              /\ arrive_time(result) = None

\* C8's case: the search has returned for start = dest on a graph with
\* flights out of start that were open to it.
C8_Witness ==
    /\ fn = "earliest" /\ start = dest /\ pc = "done"
    /\ \E f \in AllFlights : f.origin = start /\ f.depart >= earliest_departure

\* The sum of the prices of a set of flights in cabin c.
RECURSIVE SumPricesOf(_, _)
SumPricesOf(S, c) ==
    IF S = {} THEN 0
    ELSE LET f == CHOOSE x \in S : TRUE IN price_for(f, c) + SumPricesOf(S \ {f}, c)

\* The improvements still open to location a: for the earliest search the
\* flights into a that land before its recorded time, for the cheapest search
\* the costs below its recorded cost (below `ceiling`, when none is recorded).
Room(a, ceiling) ==
    IF fn = "earliest"
    THEN Cardinality({f \in AllFlights :
                        /\ f.dest = a
                        /\ a \in DOMAIN best_time => f.arrive < best_time[a]})
    ELSE IF a \in DOMAIN best_cost THEN best_cost[a]
    ELSE ceiling

\* Room summed over the airports 1..n.
RECURSIVE SumRoom(_, _)
SumRoom(n, ceiling) ==
    IF n = 0 THEN 0 ELSE Room(n, ceiling) + SumRoom(n - 1, ceiling)

\* What is left to do: the queue entries still to pop, and two for every
\* improvement still open, since an improvement also pushes an entry.  No
\* label costs more than all flights together: it is the price of a chain of
\* different flights.
Variant ==
    CASE pc = "done" -> 0
      [] pc = "rebuild" -> 1
      [] pc = "loop" ->
            2 + Len(pq)
              + 2 * SumRoom(NumAirports,
                            IF fn = "earliest" THEN 0
                            ELSE 1 + SumPricesOf(AllFlights, cabin))

\* C9: every call of either search terminates: it returns, because every
\* step lowers a natural number (an iteration replaces recorded values by
\* strictly smaller ones only, and pushes a location only when it does).
C9_Terminates ==
    /\ <>(pc = "done")
    /\ [](Variant >= 0)
    /\ [][Variant' < Variant]_vars

\* C9's case: a search has returned on a graph with a cycle of free flights
\* through start, after taking a flight of it.
C9_Witness ==
    /\ pc = "done"
    /\ \E f, g \in AllFlights :
          /\ f.origin = start /\ g.origin = f.dest /\ g.dest = start
          /\ g.depart >= f.arrive + 60
          /\ f.dest \in DOMAIN prev /\ prev[f.dest] = f
          /\ fn = "cheapest" => price_for(f, cabin) = 0 /\ price_for(g, cabin) = 0

\* How the walk of prev from cur ends: at start, on a location without a
\* predecessor, or on a location it has seen.
RECURSIVE PrevWalk(_, _, _)
PrevWalk(p, cur, seen) ==
    IF cur = start THEN "start"
    ELSE IF cur \notin DOMAIN p THEN "missing"
    ELSE IF cur \in seen THEN "revisit"
    ELSE PrevWalk(p, p[cur].origin, seen \cup {cur})

\* C10: in find_cheapest_itinerary start never has a predecessor, and once the
\* search loop has ended with a predecessor recorded for dest, the walk of
\* prev from dest reaches start over locations with a predecessor, without
\* visiting one twice; so the return raises nothing.
C10_PrevReachesStart ==
    fn = "cheapest" =>
        /\ start \notin DOMAIN prev
        /\ (pc # "loop" /\ dest \in DOMAIN prev) => PrevWalk(prev, dest, {}) = "start"
        /\ pc = "done" => result.kind \in {"Itinerary", "None"}

\* C10's case: the loop has ended with dest two flights from start, in a graph
\* with a free flight back into start out of a labelled location.
C10_Witness ==
    /\ fn = "cheapest" /\ pc = "rebuild"
    /\ dest \in DOMAIN prev
    /\ prev[dest].origin # start
    /\ \E f \in AllFlights : /\ f.dest = start /\ f.origin \in DOMAIN prev
                             /\ price_for(f, cabin) = 0
                             /\ f.depart >= best_time[f.origin] + 60

====
